---- MODULE Spec2Model ----
(***************************************************************************)
(* Model of the Tagmatter plugin (src/main.ts): the text/metadata          *)
(* reconciliation engine (extractInlineTags, parseFrontmatter,             *)
(* getExistingTags, removeTags, buildFrontmatterWithTags and the body of   *)
(* syncTagsToFrontmatter) and the host glue around it (the processing set, *)
(* the debounce timers and the asynchronous vault read / write).           *)
(*                                                                         *)
(* A JavaScript string is modelled as a sequence of one-character strings, *)
(* so that every string operation (split, trim, startsWith, the regular    *)
(* expressions, the default sort) is computed character by character.      *)
(***************************************************************************)
EXTENDS Integers, Sequences, FiniteSets, Bags, TLC

(***************************************************************************)
(* Characters                                                              *)
(***************************************************************************)
UpperChars == <<"A","B","C","D","E","F","G","H","I","J","K","L","M",
                "N","O","P","Q","R","S","T","U","V","W","X","Y","Z">>
LowerChars == <<"a","b","c","d","e","f","g","h","i","j","k","l","m",
                "n","o","p","q","r","s","t","u","v","w","x","y","z">>
DigitChars == <<"0","1","2","3","4","5","6","7","8","9">>

Range(s) == {s[i] : i \in DOMAIN s}

IndexIn(c, s) == CHOOSE i \in DOMAIN s : s[i] = c

\* \s of a JavaScript regular expression and the characters String.trim() strips
\* (the ASCII ones: space, tab, line feed, carriage return, form feed)
IsSpace(c) == c \in {" ", "\t", "\n", "\r", "\f"}

Letters == Range(UpperChars) \cup Range(LowerChars)
Digits == Range(DigitChars)

\* [\w\-] of tagRegex: letters, digits, underscore, hyphen
TagChars == Letters \cup Digits \cup {"_", "-"}

\* IsTagChar with the hyphen left out of the class: /#(\w+)/g
IsWordChar(c) == c \in Letters \cup Digits \cup {"_"}

IsTagChar(c) == c \in TagChars

\* String.toLowerCase(), character by character
LowerOf == [c \in Range(UpperChars) |-> LowerChars[IndexIn(c, UpperChars)]]

LowerChar(c) == IF c \in DOMAIN LowerOf THEN LowerOf[c] ELSE c

\* the UTF-16 code units of the characters (the order Array.sort() compares by)
CodeOf ==
    [c \in Letters \cup Digits \cup
           {"\t", "\n", "\f", "\r", " ", "\"", "#", "'", ",", "-", ".", ":", "[", "]", "_"} |->
        CASE c \in Range(UpperChars) -> 64 + IndexIn(c, UpperChars)
          [] c \in Range(LowerChars) -> 96 + IndexIn(c, LowerChars)
          [] c \in Range(DigitChars) -> 47 + IndexIn(c, DigitChars)
          [] c = "\t" -> 9
          [] c = "\n" -> 10
          [] c = "\f" -> 12
          [] c = "\r" -> 13
          [] c = " " -> 32
          [] c = "\"" -> 34
          [] c = "#" -> 35
          [] c = "'" -> 39
          [] c = "," -> 44
          [] c = "-" -> 45
          [] c = "." -> 46
          [] c = ":" -> 58
          [] c = "[" -> 91
          [] c = "]" -> 93
          [] c = "_" -> 95]

CharCode(c) == CodeOf[c]

(***************************************************************************)
(* String helpers (each is the JavaScript built-in the code calls)         *)
(***************************************************************************)
\* s.substring(i) with a 1-based index: the characters from position i on
From(s, i) == IF i > Len(s) THEN <<>> ELSE SubSeq(s, i, Len(s))

\* s.startsWith(p), and the same test at position i (1-based)
StartsWithAt(s, p, i) ==
    /\ i + Len(p) - 1 <= Len(s)
    /\ \A k \in 1..Len(p) : s[i + k - 1] = p[k]

StartsWith(s, p) == StartsWithAt(s, p, 1)

\* String.trim()
Trim(s) ==
    LET keep == {i \in DOMAIN s : ~IsSpace(s[i])}
    IN  IF keep = {} THEN <<>>
        ELSE SubSeq(s, CHOOSE i \in keep : \A j \in keep : i <= j,
                       CHOOSE i \in keep : \A j \in keep : i >= j)

\* String.toLowerCase()
ToLowerCase(s) == [i \in DOMAIN s |-> LowerChar(s[i])]

RECURSIVE SplitFrom(_, _, _)
SplitFrom(s, sep, i) ==
    LET hits == {j \in i..Len(s) : s[j] = sep}
    IN  IF hits = {} THEN <<From(s, i)>>
        ELSE LET j == CHOOSE x \in hits : \A y \in hits : x <= y
             IN  <<SubSeq(s, i, j - 1)>> \o SplitFrom(s, sep, j + 1)

\* s.split(sep) for a one-character separator: "" splits to [""]
Split(s, sep) == SplitFrom(s, sep, 1)

RECURSIVE Join(_, _)
\* parts.join(sep): [] joins to ""
Join(parts, sep) ==
    IF parts = <<>> THEN <<>>
    ELSE IF Len(parts) = 1 THEN parts[1]
    ELSE parts[1] \o sep \o Join(Tail(parts), sep)

\* a < b for two strings, as the default Array.sort() compares them:
\* by UTF-16 code units, a proper prefix first
StrLess(a, b) ==
    \E k \in 1..(Len(b)) :
        /\ \A j \in 1..(k - 1) : j <= Len(a) /\ a[j] = b[j]
        /\ k - 1 <= Len(a)
        /\ (k > Len(a) \/ CharCode(a[k]) < CharCode(b[k]))

RECURSIVE InsertSorted(_, _)
InsertSorted(x, sorted) ==
    IF sorted = <<>> THEN <<x>>
    ELSE IF StrLess(x, sorted[1]) THEN <<x>> \o sorted
    ELSE <<sorted[1]>> \o InsertSorted(x, Tail(sorted))

RECURSIVE Sort(_)
\* [...a].sort(): a sorted copy, ascending by code units
Sort(a) == IF a = <<>> THEN <<>> ELSE InsertSorted(a[1], Sort(Tail(a)))

Min(S) == CHOOSE x \in S : \A y \in S : x <= y
Max(S) == CHOOSE x \in S : \A y \in S : x >= y

(***************************************************************************)
(* String literals of the source                                           *)
(***************************************************************************)
Dashes == <<"-", "-", "-">>                       \* '---'
NL == <<"\n">>                                    \* '\n'
TagsKey == <<"t", "a", "g", "s", ":">>            \* 'tags:'
ItemPrefix == <<" ", " ", "-", " ">>              \* '  - ' of `  - ${tag}`

(***************************************************************************)
(* extractInlineTags                                                       *)
(***************************************************************************)
RECURSIVE ExecLoop(_, _)
\* the while loop over tagRegex.exec(content), /#([\w\-]+)/g, from lastIndex
\* i (1-based): the captured groups of the successive matches
ExecLoop(s, i) ==
    LET starts == {j \in i..(Len(s) - 1) : s[j] = "#" /\ IsTagChar(s[j + 1])}
    IN  IF starts = {} THEN <<>>
        ELSE LET j == Min(starts)
                 stops == {k \in (j + 1)..Len(s) : ~IsTagChar(s[k])}
                 e == IF stops = {} THEN Len(s) + 1 ELSE Min(stops)
             IN  <<SubSeq(s, j + 1, e - 1)>> \o ExecLoop(s, e)

RECURSIVE Dedupe(_)
\* Array.from(new Set(tags)): each value once, in order of first insertion
Dedupe(tags) ==
    IF tags = <<>> THEN <<>>
    ELSE LET init == Dedupe(SubSeq(tags, 1, Len(tags) - 1))
             last == tags[Len(tags)]
         IN  IF last \in Range(init) THEN init ELSE Append(init, last)

\* the tags pushed by the loop: non-empty captures, lowercased when the
\* lowercaseTags setting is on
PushedTags(s, lowercase) ==
    LET caps == SelectSeq(ExecLoop(s, 1), LAMBDA t : Len(t) > 0)
    IN  [i \in DOMAIN caps |-> IF lowercase THEN ToLowerCase(caps[i]) ELSE caps[i]]

\* extractInlineTags deduplicating the captures before they are lowercased
extractDedupeThenLower(s, lowercase) ==
    LET caps == Dedupe(PushedTags(s, FALSE))
    IN  [i \in DOMAIN caps |-> IF lowercase THEN ToLowerCase(caps[i]) ELSE caps[i]]

extractInlineTags(s, lowercase) == Dedupe(PushedTags(s, lowercase))

(***************************************************************************)
(* parseFrontmatter                                                        *)
(***************************************************************************)
\* content.match(/^---\n([\s\S]*?)\n---\n([\s\S]*)$/): the lazy group ends at
\* the first '\n---\n' at or after the end of the opening '---\n'
parseFrontmatter(s) ==
    LET open == Dashes \o NL
        close == NL \o Dashes \o NL
        ends == {i \in (Len(open) + 1)..Len(s) : StartsWithAt(s, close, i)}
    IN  IF StartsWith(s, open) /\ ends # {}
        THEN LET i == Min(ends)
             IN  [frontmatterText |-> SubSeq(s, Len(open) + 1, i - 1),
                  bodyText |-> From(s, i + Len(close)),
                  hasFrontmatter |-> TRUE]
        ELSE [frontmatterText |-> <<>>, bodyText |-> s, hasFrontmatter |-> FALSE]

(***************************************************************************)
(* getExistingTags                                                         *)
(***************************************************************************)
\* trimmed === 'tags:' || trimmed.startsWith('tags:')
IsTagsKeyLine(trimmed) == trimmed = TagsKey \/ StartsWith(trimmed, TagsKey)

\* '.' of a regular expression: any character but a line terminator
IsDot(c) == c \notin {"\n", "\r"}

\* trimmed.match(/tags:\s*\[(.*)\]/): the leftmost 'tags:' that is followed
\* by optional white space and '[', with the greedy group running to the
\* last ']' reachable without a line terminator
InlineArrayMatch(trimmed) ==
    LET openAt(p) ==
            LET after == p + Len(TagsKey)
                nonsp == {q \in after..Len(trimmed) : ~IsSpace(trimmed[q])}
            IN  IF nonsp = {} THEN 0
                ELSE IF trimmed[Min(nonsp)] = "[" THEN Min(nonsp) ELSE 0
        closes(q) == {r \in (q + 1)..Len(trimmed) :
                         /\ trimmed[r] = "]"
                         /\ \A k \in (q + 1)..(r - 1) : IsDot(trimmed[k])}
        hits == {p \in 1..Len(trimmed) :
                    /\ StartsWithAt(trimmed, TagsKey, p)
                    /\ openAt(p) # 0
                    /\ closes(openAt(p)) # {}}
    IN  IF hits = {} THEN [matched |-> FALSE, group |-> <<>>]
        ELSE LET q == openAt(Min(hits))
             IN  [matched |-> TRUE, group |-> SubSeq(trimmed, q + 1, Max(closes(q)) - 1)]

\* t.replace(/['"]/g, '')
StripQuotes(t) == SelectSeq(t, LAMBDA c : c \notin {"'", "\""})

\* inlineMatch[1].split(',').map(t => t.trim().replace(/['"]/g, ''))
\*               .filter(t => t.length > 0)
InlineArrayTags(group) ==
    LET parts == Split(group, ",")
        cleaned == [i \in DOMAIN parts |-> StripQuotes(Trim(parts[i]))]
    IN  SelectSeq(cleaned, LAMBDA t : Len(t) > 0)

RECURSIVE ReadLoop(_, _, _, _)
\* the for loop of getExistingTags from line i on, with the loop's locals
ReadLoop(lines, i, inTagsSection, tags) ==
    IF i > Len(lines) THEN tags
    ELSE LET trimmed == Trim(lines[i])
         IN  IF IsTagsKeyLine(trimmed)
             THEN LET m == InlineArrayMatch(trimmed)
                  IN  IF m.matched THEN InlineArrayTags(m.group)
                      ELSE ReadLoop(lines, i + 1, TRUE, tags)
             ELSE IF inTagsSection
             THEN IF StartsWith(trimmed, <<"-">>)
                  THEN LET tag == Trim(From(trimmed, 2))
                       IN  ReadLoop(lines, i + 1, TRUE,
                                    IF tag # <<>> THEN Append(tags, tag) ELSE tags)
                  ELSE IF /\ trimmed # <<>>
                          /\ ~StartsWith(trimmed, <<" ">>)
                          /\ ~StartsWith(trimmed, <<"-">>)
                  THEN tags
                  ELSE ReadLoop(lines, i + 1, TRUE, tags)
             ELSE ReadLoop(lines, i + 1, FALSE, tags)

getExistingTags(frontmatterText) ==
    IF frontmatterText = <<>> THEN <<>>
    ELSE ReadLoop(Split(frontmatterText, "\n"), 1, FALSE, <<>>)

(***************************************************************************)
(* removeTags                                                              *)
(***************************************************************************)
\* inTagsSection && trimmed && !trimmed.startsWith('-') && !trimmed.startsWith(' ')
LeavesTagsSection(inTagsSection, trimmed) ==
    /\ inTagsSection
    /\ trimmed # <<>>
    /\ ~StartsWith(trimmed, <<"-">>)
    /\ ~StartsWith(trimmed, <<" ">>)

RECURSIVE RemoveLoop(_, _, _, _)
\* the for loop of removeTags from line i on: newLines at its end
RemoveLoop(lines, i, inTagsSection, newLines) ==
    IF i > Len(lines) THEN newLines
    ELSE LET line == lines[i]
             trimmed == Trim(line)
         IN  IF IsTagsKeyLine(trimmed)
             THEN RemoveLoop(lines, i + 1, TRUE, newLines)
             ELSE IF inTagsSection /\ StartsWith(trimmed, <<"-">>)
             THEN RemoveLoop(lines, i + 1, inTagsSection, newLines)
             ELSE LET stillIn == inTagsSection /\ ~LeavesTagsSection(inTagsSection, trimmed)
                  IN  RemoveLoop(lines, i + 1, stillIn,
                                 IF ~stillIn THEN Append(newLines, line) ELSE newLines)

removeTags(frontmatterText) ==
    Join(RemoveLoop(Split(frontmatterText, "\n"), 1, FALSE, <<>>), NL)

(***************************************************************************)
(* buildFrontmatterWithTags                                                *)
(***************************************************************************)
\* tags.map(tag => `  - ${tag}`)
TagLines(tags) == [i \in DOMAIN tags |-> ItemPrefix \o tags[i]]

RECURSIVE BuildLoop(_, _, _, _, _, _)
\* the for loop of buildFrontmatterWithTags from line i on: its locals
\* newLines and tagsInserted at its end
BuildLoop(lines, tags, i, inTagsSection, tagsInserted, newLines) ==
    IF i > Len(lines) THEN [newLines |-> newLines, tagsInserted |-> tagsInserted]
    ELSE LET line == lines[i]
             trimmed == Trim(line)
         IN  IF IsTagsKeyLine(trimmed)
             THEN BuildLoop(lines, tags, i + 1, TRUE, TRUE,
                            newLines \o <<TagsKey>> \o TagLines(tags))
             ELSE IF inTagsSection /\ StartsWith(trimmed, <<"-">>)
             THEN BuildLoop(lines, tags, i + 1, inTagsSection, tagsInserted, newLines)
             ELSE LET stillIn == inTagsSection /\ ~LeavesTagsSection(inTagsSection, trimmed)
                  IN  BuildLoop(lines, tags, i + 1, stillIn, tagsInserted,
                                IF ~stillIn THEN Append(newLines, line) ELSE newLines)

\* buildFrontmatterWithTags without the line feed that ends the new text
buildWithoutFinalNewline(frontmatterText, tags, hadFrontmatter) ==
    IF ~hadFrontmatter \/ frontmatterText = <<>>
    THEN TagsKey \o NL \o Join(TagLines(tags), NL)
    ELSE LET r == BuildLoop(Split(frontmatterText, "\n"), tags, 1, FALSE, FALSE, <<>>)
         IN  IF ~r.tagsInserted
             THEN Join(<<TagsKey>> \o TagLines(tags) \o r.newLines, NL)
             ELSE Join(r.newLines, NL)

buildFrontmatterWithTags(frontmatterText, tags, hadFrontmatter) ==
    IF ~hadFrontmatter \/ frontmatterText = <<>>
    THEN TagsKey \o NL \o Join(TagLines(tags), NL) \o NL
    ELSE LET r == BuildLoop(Split(frontmatterText, "\n"), tags, 1, FALSE, FALSE, <<>>)
         IN  IF ~r.tagsInserted
             THEN Join(<<TagsKey>> \o TagLines(tags) \o r.newLines, NL) \o NL
             ELSE Join(r.newLines, NL) \o NL

(***************************************************************************)
(* syncTagsToFrontmatter: what it computes from the content it has read    *)
(***************************************************************************)
arraysEqual(a, b) ==
    /\ Len(a) = Len(b)
    /\ \A i \in 1..Len(a) : a[i] = b[i]

\* the outcome of one pass: whether vault.modify is called, and with what
NoChange == [write |-> FALSE, newContent |-> <<>>]
Modify(newContent) == [write |-> TRUE, newContent |-> newContent]

\* `---\n${newFrontmatterText}---\n${rest}`
Reconstruct(newFrontmatterText, rest) ==
    Dashes \o NL \o newFrontmatterText \o Dashes \o NL \o rest

\* RemoveBranch writing the trimmed body when the block is dropped
RemoveBranchTrimmedBody(parsed) ==
    IF parsed.hasFrontmatter
    THEN LET newFrontmatterText == removeTags(parsed.frontmatterText)
         IN  IF Trim(newFrontmatterText) # <<>>
             THEN Modify(Reconstruct(newFrontmatterText, parsed.bodyText))
             ELSE Modify(Trim(parsed.bodyText))
    ELSE NoChange

\* lines 88-102: no inline tags are left
RemoveBranch(parsed) ==
    IF parsed.hasFrontmatter
    THEN LET newFrontmatterText == removeTags(parsed.frontmatterText)
         IN  IF Trim(newFrontmatterText) # <<>>
             THEN Modify(Reconstruct(newFrontmatterText, parsed.bodyText))
             ELSE Modify(parsed.bodyText)
    ELSE NoChange

\* lines 104-113: the tag section is built from the sorted inline tags
RebuildBranch(s, parsed, sortedInlineTags) ==
    LET newFrontmatterText ==
            buildFrontmatterWithTags(parsed.frontmatterText, sortedInlineTags,
                                     parsed.hasFrontmatter)
    IN  Modify(Reconstruct(newFrontmatterText,
                           IF parsed.hasFrontmatter THEN parsed.bodyText ELSE s))

\* syncResult comparing the recorded tags as read, not sorted
syncResultExistingUnsorted(s, lowercase) ==
    LET inlineTags == extractInlineTags(s, lowercase)
        parsed == parseFrontmatter(s)
        existingTags == getExistingTags(parsed.frontmatterText)
        sortedInlineTags == Sort(inlineTags)
    IN  IF arraysEqual(existingTags, sortedInlineTags) THEN NoChange
        ELSE IF Len(inlineTags) = 0 THEN RemoveBranch(parsed)
        ELSE RebuildBranch(s, parsed, sortedInlineTags)

\* syncResult removing the duplicates of the recorded tags before the comparison
syncResultExistingDeduped(s, lowercase) ==
    LET inlineTags == extractInlineTags(s, lowercase)
        parsed == parseFrontmatter(s)
        existingTags == Dedupe(getExistingTags(parsed.frontmatterText))
        sortedInlineTags == Sort(inlineTags)
        sortedExisting == Sort(existingTags)
    IN  IF arraysEqual(sortedExisting, sortedInlineTags) THEN NoChange
        ELSE IF Len(inlineTags) = 0 THEN RemoveBranch(parsed)
        ELSE RebuildBranch(s, parsed, sortedInlineTags)

\* lines 72-113, from the content read to the content written (if any)
syncResult(s, lowercase) ==
    LET inlineTags == extractInlineTags(s, lowercase)
        parsed == parseFrontmatter(s)
        existingTags == getExistingTags(parsed.frontmatterText)
        sortedInlineTags == Sort(inlineTags)
        sortedExisting == Sort(existingTags)
    IN  IF arraysEqual(sortedExisting, sortedInlineTags) THEN NoChange
        ELSE IF Len(inlineTags) = 0 THEN RemoveBranch(parsed)
        ELSE RebuildBranch(s, parsed, sortedInlineTags)

(***************************************************************************)
(* State                                                                   *)
(***************************************************************************)
VARIABLES
    content,        \* the text of the document the engine is run on
    lowercaseTags,  \* settings.lowercaseTags
    history,        \* the passes made so far: what each read, extracted and decided
    autoSync,       \* settings.autoSync when the plugin loaded
    vault,          \* the text of each file of the vault
    processing,     \* this.processing: the paths marked busy
    debounceTimers, \* this.debounceTimers: whether the map has an entry for a path
    timeouts,       \* the pending setTimeout calls, a bag: the debounce timers
                    \* (mapped: the map's entry for the path is this timer) and
                    \* the timers that clear the busy mark
    syncs,          \* the calls of syncTagsToFrontmatter that are past the guard
                    \* and await vault.read or vault.modify, a bag
    edits,          \* how many times the user has saved a file
    commands,       \* how many times the sync command has been run on each path
    metadataText,   \* the metadata text handed to getExistingTags, removeTags
                    \* or buildFrontmatterWithTags called on their own
    calls           \* those calls: what each was given and what it returned

engineVars == <<content, lowercaseTags, history>>

metaVars == <<metadataText, calls>>

hostVars == <<autoSync, vault, processing, debounceTimers, timeouts, syncs, edits, commands>>

vars == <<engineVars, hostVars, metaVars>>

Paths == {"a.md", "b.md"}

\* the host before anything has happened
HostIdle ==
    /\ vault = [p \in Paths |-> <<>>]
    /\ processing = {}
    /\ debounceTimers = [p \in Paths |-> FALSE]
    /\ timeouts = EmptyBag
    /\ syncs = EmptyBag
    /\ edits = 0
    /\ commands = [p \in Paths |-> 0]

\* no component has been called on its own
MetaIdle ==
    /\ metadataText = <<>>
    /\ calls = <<>>

(***************************************************************************)
(* Bounds and the documents the engine is run on                           *)
(***************************************************************************)
MaxMetaLines == 3   \* lines between the two '---' lines of an input document
MaxTextLen == 4     \* characters of an input document made of single characters
MaxSyncs == 2       \* passes made over one document

RECURSIVE SeqsUpTo(_, _)
\* the sequences over S of length at most n
SeqsUpTo(S, n) ==
    IF n = 0 THEN {<<>>}
    ELSE LET shorter == SeqsUpTo(S, n - 1)
         IN  shorter \cup {Append(q, x) : q \in {r \in shorter : Len(r) = n - 1}, x \in S}

\* lines of a metadata block: the tag key, list items (one holding a '#'
\* token), an unrelated field, a blank line, the inline-array form
MetaLines ==
    { TagsKey,
      ItemPrefix \o <<"a">>,
      ItemPrefix \o <<"b">>,
      ItemPrefix \o <<"#", "a">>,
      <<"t", "i", "t", "l", "e", ":", " ", "x">>,
      <<>>,
      TagsKey \o <<" ", "[", "b", ",", " ", "A", "]">> }

\* bodies: no tag, one tag, two tags out of order, a tag in upper case and
\* punctuation after a tag
Bodies ==
    { <<>>,
      <<"x", "\n">>,
      <<"#", "a">>,
      <<"#", "b", " ", "#", "a", "\n">>,
      <<"#", "A", " ", "#", "b", ".">> }

\* '---\n' + lines + '\n---\n': the block parseFrontmatter recognises
Block(lines) == Dashes \o NL \o Join(lines, NL) \o NL \o Dashes \o NL

\* documents with a block
BlockDocuments ==
    {Block(lines) \o body : lines \in SeqsUpTo(MetaLines, MaxMetaLines), body \in Bodies}

\* documents without one: the bodies alone, and every short text over TextChars
TextChars == {"#", "a", "A", "-", "."}

PlainDocuments == Bodies \cup SeqsUpTo(TextChars, MaxTextLen)

\* documents whose two '---' lines have no line between them
EmptyBlockDocuments == {Dashes \o NL \o Dashes \o NL \o body : body \in Bodies}

InputDocuments == PlainDocuments \cup BlockDocuments \cup EmptyBlockDocuments

(***************************************************************************)
(* The engine run on one document                                          *)
(***************************************************************************)
Init ==
    /\ content \in InputDocuments
    /\ lowercaseTags \in BOOLEAN
    /\ history = <<>>
    /\ autoSync = FALSE
    /\ HostIdle
    /\ MetaIdle

\* the 'Sync tags to frontmatter' command run to completion on the document:
\* vault.read, the pass over the content, vault.modify when it decides to write
SyncCommand ==
    /\ Len(history) < MaxSyncs
    /\ LET result == syncResult(content, lowercaseTags)
       IN  /\ history' = Append(history,
                               [input |-> content,
                                inlineTags |-> extractInlineTags(content, lowercaseTags),
                                result |-> result])
           /\ content' = IF result.write THEN result.newContent ELSE content
    /\ UNCHANGED <<lowercaseTags, hostVars, metaVars>>

Next == SyncCommand

Spec == Init /\ [][Next]_vars

(***************************************************************************)
(* Properties of the engine                                                *)
(***************************************************************************)
\* the pass just made, once one has been made; every pass is the last one
\* in the state that follows it
SomePass == history # <<>>
LastPass == history[Len(history)]

FrontmatterOf(d) == parseFrontmatter(d).frontmatterText
BodyOf(d) == parseFrontmatter(d).bodyText
HasBlock(d) == parseFrontmatter(d).hasFrontmatter

LinesOf(m) == Split(m, "\n")

\* a '#' at position j of s is followed by exactly n characters of the
\* class {letters, digits, underscore, hyphen} and then by none of it
TagClass == Letters \cup Digits \cup {"_", "-"}

IsMaximalRunAfterHash(s, j, n) ==
    /\ s[j] = "#"
    /\ n >= 1
    /\ j + n <= Len(s)
    /\ \A k \in 1..n : s[j + k] \in TagClass
    /\ (j + n = Len(s) \/ s[j + n + 1] \notin TagClass)

\* the positions of the '#' characters that start an inline tag, the run
\* that follows each, and the runs in order of position
TagStarts(s) == {j \in 1..(Len(s) - 1) : s[j] = "#" /\ s[j + 1] \in TagClass}

TagRunAt(s, j) ==
    SubSeq(s, j + 1, j + Max({n \in 1..(Len(s) - j) : \A k \in 1..n : s[j + k] \in TagClass}))

Normalized(t, lowercase) == IF lowercase THEN ToLowerCase(t) ELSE t

Occurrences(s, lowercase) ==
    LET starts == TagStarts(s)
    IN  [k \in 1..Cardinality(starts) |->
            LET j == CHOOSE x \in starts : Cardinality({y \in starts : y <= x}) = k
            IN  Normalized(TagRunAt(s, j), lowercase)]

FirstIndex(seq, x) == Min({k \in DOMAIN seq : seq[k] = x})

\* C1: (the claim as stated) a pass over the document that the pass before
\* it has just written decides NO_CHANGE
C1_SecondPassNoChange ==
    Len(history) >= 2 =>
        LET first == history[Len(history) - 1]
        IN  (first.result.write /\ LastPass.input = first.result.newContent)
                => ~LastPass.result.write

\* an unrelated field line: not blank, not the tag key, not a list item
IsFieldLine(line) ==
    LET t == Trim(line)
    IN  t # <<>> /\ ~StartsWith(t, TagsKey) /\ ~StartsWith(t, <<"-">>)

FieldLines(m) == SelectSeq(LinesOf(m), IsFieldLine)

HasTagSection(m) == \E k \in DOMAIN LinesOf(m) : StartsWith(Trim(LinesOf(m)[k]), TagsKey)

\* C2: (the claim as stated) when the block of the input holds a tag section
\* and field lines, a pass that writes leaves a block holding the same
\* field lines, unchanged and in the same order
C2_FieldLinesKept ==
    SomePass =>
        LET m == FrontmatterOf(LastPass.input)
        IN  (/\ HasBlock(LastPass.input)
             /\ HasTagSection(m)
             /\ FieldLines(m) # <<>>
             /\ LastPass.result.write)
                => /\ HasBlock(LastPass.result.newContent)
                   /\ FieldLines(FrontmatterOf(LastPass.result.newContent)) = FieldLines(m)

IsSuffix(t, s) == Len(t) <= Len(s) /\ From(s, Len(s) - Len(t) + 1) = t

\* C3: the document a pass writes ends with the body of the document it
\* read (the whole document when it had no block)
C3_BodyKept ==
    (SomePass /\ LastPass.result.write)
        => IsSuffix(BodyOf(LastPass.input), LastPass.result.newContent)

\* C3 witness: a pass rewrote the block of a document that has a body
C3_Witness ==
    /\ SomePass
    /\ LastPass.result.write
    /\ HasBlock(LastPass.input)
    /\ BodyOf(LastPass.input) # <<>>
    /\ Len(LastPass.result.newContent) > Len(BodyOf(LastPass.input))

\* a list-item line as the Writer lays it out, and a block that is a tag
\* list and nothing else: the inline-array form alone, or the tag key
\* followed by list items only
IsItemLine(line) == StartsWith(line, ItemPrefix) /\ Len(line) > Len(ItemPrefix)

IsInlineArrayLine(line) ==
    /\ StartsWith(line, TagsKey \o <<" ", "[">>)
    /\ line[Len(line)] = "]"
    /\ Len(line) > Len(TagsKey) + 3

OnlyTagList(m) ==
    LET lines == LinesOf(m)
    IN  \/ Len(lines) = 1 /\ IsInlineArrayLine(lines[1])
        \/ /\ Len(lines) >= 2
           /\ lines[1] = TagsKey
           /\ \A k \in 2..Len(lines) : IsItemLine(lines[k])

\* C4: (the claim as stated) a document whose block is a tag list and
\* nothing else, and whose body holds no inline tag, is rewritten to its body
C4_BlockDropped ==
    (/\ SomePass
     /\ HasBlock(LastPass.input)
     /\ OnlyTagList(FrontmatterOf(LastPass.input))
     /\ TagStarts(BodyOf(LastPass.input)) = {})
        => LastPass.result = Modify(BodyOf(LastPass.input))

Count(x, seq) == Cardinality({k \in DOMAIN seq : seq[k] = x})

SameIgnoringOrder(a, b) == \A x \in Range(a) \cup Range(b) : Count(x, a) = Count(x, b)

RecordedTags(d) == getExistingTags(FrontmatterOf(d))

\* C5: when the tags recorded in the block are the inline tags in some
\* order, the pass decides NO_CHANGE and the document is left as it was
C5_NoOpStable ==
    (SomePass /\ SameIgnoringOrder(RecordedTags(LastPass.input), LastPass.inlineTags))
        => ~LastPass.result.write /\ content = LastPass.input

\* C5 witness: the block records the inline tags in another order than the
\* sorted one, and the pass left the document alone
C5_Witness ==
    /\ SomePass
    /\ LET recorded == RecordedTags(LastPass.input)
       IN  /\ Len(recorded) >= 2
           /\ SameIgnoringOrder(recorded, LastPass.inlineTags)
           /\ \E k \in 1..(Len(recorded) - 1) : StrLess(recorded[k + 1], recorded[k])
    /\ ~LastPass.result.write
    /\ content = LastPass.input

Ascending(t) == \A k \in 1..(Len(t) - 1) : StrLess(t[k], t[k + 1])

\* C6: a document with no block and at least one inline tag is rewritten to
\* a document with a block whose recorded tags are the normalized inline
\* tags, each once, ascending
C6_RoundTrip ==
    (SomePass /\ ~HasBlock(LastPass.input) /\ TagStarts(LastPass.input) # {})
        => /\ LastPass.result.write
           /\ HasBlock(LastPass.result.newContent)
           /\ Ascending(RecordedTags(LastPass.result.newContent))
           /\ Range(RecordedTags(LastPass.result.newContent))
                  = Range(Occurrences(LastPass.input, lowercaseTags))

\* C6 witness: such a document held two tags out of order and has been
\* rewritten with both recorded
C6_Witness ==
    /\ SomePass
    /\ ~HasBlock(LastPass.input)
    /\ LET occ == Occurrences(LastPass.input, lowercaseTags)
       IN  Len(occ) >= 2 /\ \E k \in 1..(Len(occ) - 1) : StrLess(occ[k + 1], occ[k])
    /\ LastPass.result.write
    /\ Len(RecordedTags(LastPass.result.newContent)) >= 2

\* C7: the extracted tags are the normalized occurrences, each once, in
\* order of first occurrence; lowercased when the setting is on
C7_DedupedInOrder ==
    SomePass =>
        LET tags == LastPass.inlineTags
            occ == Occurrences(LastPass.input, lowercaseTags)
        IN  /\ \A a, b \in DOMAIN tags : a # b => tags[a] # tags[b]
            /\ Range(tags) = Range(occ)
            /\ \A a, b \in DOMAIN tags :
                   a < b => FirstIndex(occ, tags[a]) < FirstIndex(occ, tags[b])
            /\ lowercaseTags => \A a \in DOMAIN tags : tags[a] = ToLowerCase(tags[a])

\* C7 witness: with the setting on, two occurrences that differ by case
\* only gave one tag, the lowercased one
C7_Witness ==
    /\ SomePass
    /\ lowercaseTags
    /\ LET raw == Occurrences(LastPass.input, FALSE)
       IN  /\ Len(raw) = 2
           /\ raw[1] # raw[2]
           /\ ToLowerCase(raw[1]) = ToLowerCase(raw[2])
           /\ LastPass.inlineTags = <<ToLowerCase(raw[1])>>

\* C8: every extracted tag is the maximal run of class characters that
\* follows some '#', and every '#' followed by a class character gives one
C8_MaximalRuns ==
    SomePass =>
        LET s == LastPass.input
            tags == LastPass.inlineTags
            isRun(t, j) ==
                /\ IsMaximalRunAfterHash(s, j, Len(t))
                /\ Normalized(SubSeq(s, j + 1, j + Len(t)), lowercaseTags) = t
        IN  /\ \A t \in Range(tags) : \E j \in DOMAIN s : isRun(t, j)
            /\ \A j \in TagStarts(s) : \E t \in Range(tags) : isRun(t, j)

\* C8 witness: a tag with a hyphen in it was cut at a period, and a '#'
\* followed by a character outside the class gave nothing
C8_Witness ==
    /\ SomePass
    /\ LET s == LastPass.input
       IN  /\ \E t \in Range(LastPass.inlineTags) : "-" \in Range(t)
           /\ \E j \in TagStarts(s) :
                  LET e == j + Len(TagRunAt(s, j)) IN e < Len(s) /\ s[e + 1] = "."
           /\ \E j \in 1..(Len(s) - 1) : s[j] = "#" /\ s[j + 1] \notin TagClass
           /\ Len(LastPass.inlineTags) = 1

\* the metadata text a pass that writes puts between the two '---' lines
Rewritten(pass) ==
    LET m == FrontmatterOf(pass.input)
    IN  IF pass.inlineTags = <<>> THEN removeTags(m)
        ELSE buildFrontmatterWithTags(m, Sort(pass.inlineTags), TRUE)

\* a text is the same as another up to the line feed that ends it
SameUpToFinalNewline(a, b) == a = b \/ a \o NL = b \/ a = b \o NL

\* C11: (the claim as stated) when the input has a block and the pass writes
\* something other than the bare body, the output parses as a block followed
\* by the input's body, and the block's text is the rewritten metadata
C11_WellFormedBlock ==
    (/\ SomePass
     /\ HasBlock(LastPass.input)
     /\ LastPass.result.write
     /\ LastPass.result.newContent # BodyOf(LastPass.input))
        => LET out == parseFrontmatter(LastPass.result.newContent)
           IN  /\ out.hasFrontmatter
               /\ out.bodyText = BodyOf(LastPass.input)
               /\ SameUpToFinalNewline(out.frontmatterText, Rewritten(LastPass))

\* a document that begins with a '---' line, followed by zero or more lines,
\* followed by another '---' line
BeginsWithBlock(d) ==
    LET lines == LinesOf(d)
    IN  /\ Len(lines) >= 3
        /\ lines[1] = Dashes
        /\ \E k \in 2..(Len(lines) - 1) : lines[k] = Dashes

\* C12: (the claim as stated) the parser reports a block exactly for the
\* documents that begin with one, a block of zero lines included; otherwise
\* the metadata text is empty and the body is the whole document
C12_ParserBlock ==
    SomePass =>
        LET parsed == parseFrontmatter(LastPass.input)
        IN  /\ parsed.hasFrontmatter <=> BeginsWithBlock(LastPass.input)
            /\ ~parsed.hasFrontmatter =>
                   parsed.frontmatterText = <<>> /\ parsed.bodyText = LastPass.input

HasDuplicate(seq) == \E a, b \in DOMAIN seq : a # b /\ seq[a] = seq[b]

SectionLines ==
    { TagsKey,
      ItemPrefix \o <<"a">>,
      ItemPrefix \o <<"b">>,
      <<"t", "i", "t", "l", "e", ":", " ", "x">>,
      <<>>,
      <<" ", " ", "n", "o", "t", "e">>,
      TagsKey \o <<" ", "[", "b", ",", " ", "A", "]">> }

MetadataTexts == {Join(lines, NL) : lines \in SeqsUpTo(SectionLines, MaxMetaLines) \ {<<>>}}

\* the tag sequences handed to the writer: not empty, no duplicates, in
\* ascending order or not
TagLists == {<<<<"a">>>>, <<<<"c">>>>, <<<<"a">>, <<"b">>>>, <<<<"b">>, <<"a">>>>}

InitMeta ==
    /\ metadataText \in MetadataTexts
    /\ calls = <<>>
    /\ content = <<>>
    /\ lowercaseTags = FALSE
    /\ history = <<>>
    /\ autoSync = FALSE
    /\ HostIdle

\* getExistingTags(frontmatterText)
GetExistingTags ==
    /\ calls = <<>>
    /\ calls' = <<[op |-> "getExistingTags", input |-> metadataText, tags |-> <<>>,
                   output |-> getExistingTags(metadataText)]>>
    /\ UNCHANGED <<metadataText, engineVars, hostVars>>

\* removeTags(frontmatterText)
RemoveTags ==
    /\ calls = <<>>
    /\ calls' = <<[op |-> "removeTags", input |-> metadataText, tags |-> <<>>,
                   output |-> removeTags(metadataText)]>>
    /\ metadataText' = removeTags(metadataText)
    /\ UNCHANGED <<engineVars, hostVars>>

\* buildFrontmatterWithTags(frontmatterText, tags, true)
BuildFrontmatterWithTags(tags) ==
    /\ calls = <<>>
    /\ calls' = <<[op |-> "buildFrontmatterWithTags", input |-> metadataText, tags |-> tags,
                   output |-> buildFrontmatterWithTags(metadataText, tags, TRUE)]>>
    /\ metadataText' = buildFrontmatterWithTags(metadataText, tags, TRUE)
    /\ UNCHANGED <<engineVars, hostVars>>

NextMeta ==
    \/ GetExistingTags
    \/ RemoveTags
    \/ \E tags \in TagLists : BuildFrontmatterWithTags(tags)

SpecMeta == InitMeta /\ [][NextMeta]_vars

(***************************************************************************)
(* Properties of the components called on their own                        *)
(***************************************************************************)
Called(op) == calls # <<>> /\ calls[1].op = op
LastCall == calls[1]

\* the positions of the tag-key lines of a metadata text
KeyLines(m) == {k \in DOMAIN LinesOf(m) : IsTagsKeyLine(Trim(LinesOf(m)[k]))}

\* C13: (the claim as stated) the text the writer builds from a non-empty
\* metadata text and a tag sequence has one tag-key line, where the old
\* section began (at the front when there was none), followed by one
\* list-item line per tag in the order given, and the reader reads the
\* sequence back from it
C13_WriterReaderRoundTrip ==
    (Called("buildFrontmatterWithTags") /\ LastCall.input # <<>>) =>
        LET out == LinesOf(LastCall.output)
            tags == LastCall.tags
            old == KeyLines(LastCall.input)
            at == IF old = {} THEN 1 ELSE Min(old)
        IN  /\ KeyLines(LastCall.output) = {at}
            /\ out[at] = TagsKey
            /\ SubSeq(out, at + 1, at + Len(tags)) = TagLines(tags)
            /\ getExistingTags(LastCall.output) = tags

\* a line that ends the tag section: not empty, not indented, not a list item
EndsSection(line) ==
    /\ Trim(line) # <<>>
    /\ line[1] # " "
    /\ ~StartsWith(Trim(line), <<"-">>)

\* the lines of the tag section that the key line at position k opens: those
\* after it, up to the first line that ends the section
SectionOf(lines, k) ==
    LET enders == {j \in (k + 1)..Len(lines) : EndsSection(lines[j])}
        last == IF enders = {} THEN Len(lines) ELSE Min(enders) - 1
    IN  SubSeq(lines, k + 1, last)

\* the tags of the list-item lines among the given lines
ItemTags(lines) ==
    LET items == SelectSeq(lines, LAMBDA l : StartsWith(Trim(l), <<"-">>)
                                             /\ Trim(From(Trim(l), 2)) # <<>>)
    IN  [i \in DOMAIN items |-> Trim(From(Trim(items[i]), 2))]

\* C15: (the claim as stated) the reader returns the tags of every list-item
\* line of the section, which only a non-empty line that is neither indented
\* nor a list item ends: list items after an indented line are returned
C15_SectionEnd ==
    (/\ Called("getExistingTags")
     /\ Cardinality(KeyLines(LastCall.input)) = 1
     /\ ~InlineArrayMatch(Trim(LinesOf(LastCall.input)[Min(KeyLines(LastCall.input))])).matched)
        => LastCall.output
               = ItemTags(SectionOf(LinesOf(LastCall.input), Min(KeyLines(LastCall.input))))

\* the lines Remove drops from a text whose one key line is at position k:
\* the key line, and the list-item lines of the section it opens
DroppedLines(lines, k) ==
    {k} \cup {j \in (k + 1)..(k + Len(SectionOf(lines, k))) :
                 StartsWith(Trim(lines[j]), <<"-">>)}

\* C16: (the claim as stated) the lines Remove returns are the lines it was
\* given, unchanged and in order, less the tag-key line and the list-item
\* lines of its section; blank lines in or after the section are kept
C16_RemoveFrame ==
    (Called("removeTags") /\ Cardinality(KeyLines(LastCall.input)) = 1) =>
        LET lines == LinesOf(LastCall.input)
            dropped == DroppedLines(lines, Min(KeyLines(LastCall.input)))
            kept == {j \in DOMAIN lines : j \notin dropped}
            expected == [i \in 1..Cardinality(kept) |->
                            lines[CHOOSE j \in kept : Cardinality({x \in kept : x <= j}) = i]]
        IN  LastCall.output = Join(expected, NL)

(***************************************************************************)
(* The host: the modify handler, the debounce timers, the busy marks and   *)
(* the asynchronous calls of syncTagsToFrontmatter                         *)
(***************************************************************************)
MaxEdits == 2       \* saves by the user
MaxCommands == 1    \* runs of the sync command

CooldownMs == 500   \* setTimeout(() => this.processing.delete(file.path), 500)
DebounceMs == 2000  \* setTimeout(async () => {...}, 2000)

\* time is observed in steps of the shortest delay
Quantum == CooldownMs

\* what the user saves: a note with one inline tag, and a note whose block
\* records a tag the body no longer holds
UserDocuments ==
    { <<"#", "a">>,
      Block(<<TagsKey, ItemPrefix \o <<"a">>>>) }

DebounceTimer(p, cause) ==
    [kind |-> "debounce", path |-> p, remaining |-> DebounceMs, cause |-> cause, mapped |-> TRUE]

CooldownTimer(p) ==
    [kind |-> "cooldown", path |-> p, remaining |-> CooldownMs, cause |-> "none", mapped |-> FALSE]

Pending(bag) == BagToSet(bag)

AddTo(bag, x) == bag (+) SetToBag({x})
RemoveFrom(bag, x) == bag (-) SetToBag({x})

RECURSIVE SumOver(_, _)
SumOver(S, f) ==
    IF S = {} THEN 0
    ELSE LET x == CHOOSE y \in S : TRUE IN f[x] + SumOver(S \ {x}, f)

\* clearTimeout(existingTimer): the timer the map holds for p, if it is
\* still pending, is cancelled
ClearMapped(ts, p) ==
    LET keep == {t \in Pending(ts) : ~(t.kind = "debounce" /\ t.path = p /\ t.mapped)}
    IN  [t \in keep |-> ts[t]]

\* this.debounceTimers.delete(p) as the pending timers see it: none of them
\* is the map's entry any more
Unmapped(ts, p) ==
    LET g(t) == IF t.kind = "debounce" /\ t.path = p THEN [t EXCEPT !.mapped = FALSE] ELSE t
    IN  [u \in {g(x) : x \in Pending(ts)} |-> SumOver({x \in Pending(ts) : g(x) = u}, ts)]

\* the pending timers after one quantum of time
Elapsed(ts) ==
    LET g(t) == [t EXCEPT !.remaining = @ - Quantum]
    IN  [u \in {g(x) : x \in Pending(ts)} |-> SumOver({x \in Pending(ts) : g(x) = u}, ts)]

\* lines 38-53, the handler of the vault's 'modify' event (registered only
\* when autoSync was on at load): the timers and the map after it has run
HandlerTimeouts(ts, map, p, cause) ==
    IF ~autoSync THEN ts
    ELSE AddTo(IF map[p] THEN ClearMapped(ts, p) ELSE ts, DebounceTimer(p, cause))

HandlerMap(map, p) == IF ~autoSync THEN map ELSE [map EXCEPT ![p] = TRUE]

\* the guard of line 63 left out: no call is ever turned away
NeverProcessing(p) == FALSE

\* line 63: this.processing.has(file.path)
IsProcessing(p) == p \in processing

\* whether the call was made by the debounce callback: line 48 then runs
FromTimer(sync) == sync.cause # "command"

InitHost ==
    /\ content = <<>>
    /\ lowercaseTags = TRUE
    /\ history = <<>>
    /\ autoSync \in BOOLEAN
    /\ HostIdle
    /\ MetaIdle

\* the user saves file p with text d: the vault fires 'modify'
UserEdit(p, d) ==
    /\ edits < MaxEdits
    /\ vault[p] # d
    /\ vault' = [vault EXCEPT ![p] = d]
    /\ timeouts' = HandlerTimeouts(timeouts, debounceTimers, p, "user")
    /\ debounceTimers' = HandlerMap(debounceTimers, p)
    /\ edits' = edits + 1
    /\ UNCHANGED <<engineVars, metaVars, autoSync, processing, syncs, commands>>

\* lines 27-31 and 61-70: the command calls syncTagsToFrontmatter, which
\* returns at once when the path is busy and otherwise marks it and reads
EditorCallback(p) ==
    /\ SumOver(Paths, commands) < MaxCommands
    /\ commands' = [commands EXCEPT ![p] = @ + 1]
    /\ IF IsProcessing(p)
       THEN UNCHANGED <<processing, syncs>>
       ELSE /\ processing' = processing \cup {p}
            /\ syncs' = AddTo(syncs, [path |-> p, cause |-> "command", stage |-> "read",
                                      newContent |-> <<>>])
    /\ UNCHANGED <<engineVars, metaVars, autoSync, vault, debounceTimers, timeouts, edits>>

\* lines 46-49 and 61-70: a debounce timer fires; when the path is busy the
\* call returns at once and the callback deletes the map's entry
DebounceCallback(t) ==
    /\ t.kind = "debounce" /\ t.remaining = 0
    /\ IF IsProcessing(t.path)
       THEN /\ timeouts' = Unmapped(RemoveFrom(timeouts, t), t.path)
            /\ debounceTimers' = [debounceTimers EXCEPT ![t.path] = FALSE]
            /\ UNCHANGED <<processing, syncs>>
       ELSE /\ timeouts' = RemoveFrom(timeouts, t)
            /\ processing' = processing \cup {t.path}
            /\ syncs' = AddTo(syncs, [path |-> t.path, cause |-> t.cause, stage |-> "read",
                                      newContent |-> <<>>])
            /\ UNCHANGED debounceTimers
    /\ UNCHANGED <<engineVars, metaVars, autoSync, vault, edits, commands>>

\* Continuation with no finally block: a call that throws sets no timer
ContinuationWithoutFinally(ts, map, sync, resumed) ==
    [timeouts |-> IF resumed
                  THEN IF FromTimer(sync)
                       THEN Unmapped(AddTo(ts, CooldownTimer(sync.path)), sync.path)
                       ELSE AddTo(ts, CooldownTimer(sync.path))
                  ELSE ts,
     map |-> IF resumed /\ FromTimer(sync) THEN [map EXCEPT ![sync.path] = FALSE] ELSE map]

\* lines 115-120 and 48: the finally block sets the timer that clears the
\* mark; the debounce callback, resumed, deletes the map's entry
Continuation(ts, map, sync, resumed) ==
    [timeouts |-> IF resumed /\ FromTimer(sync)
                  THEN Unmapped(AddTo(ts, CooldownTimer(sync.path)), sync.path)
                  ELSE AddTo(ts, CooldownTimer(sync.path)),
     map |-> IF resumed /\ FromTimer(sync) THEN [map EXCEPT ![sync.path] = FALSE] ELSE map]

\* lines 70-113: vault.read resolves and the pass runs on what was read; it
\* either returns (NO_CHANGE) or calls vault.modify
ReadResolves(sync) ==
    /\ sync.stage = "read"
    /\ LET result == syncResult(vault[sync.path], lowercaseTags)
           after == Continuation(timeouts, debounceTimers, sync, TRUE)
       IN  IF result.write
           THEN /\ syncs' = AddTo(RemoveFrom(syncs, sync),
                                  [sync EXCEPT !.stage = "write",
                                               !.newContent = result.newContent])
                /\ UNCHANGED <<timeouts, debounceTimers>>
           ELSE /\ syncs' = RemoveFrom(syncs, sync)
                /\ timeouts' = after.timeouts
                /\ debounceTimers' = after.map
    /\ UNCHANGED <<engineVars, metaVars, autoSync, vault, processing, edits, commands>>

\* vault.read or vault.modify rejects: the finally block runs, the call
\* throws and the debounce callback does not reach line 48
IoRejects(sync) ==
    /\ syncs' = RemoveFrom(syncs, sync)
    /\ timeouts' = Continuation(timeouts, debounceTimers, sync, FALSE).timeouts
    /\ UNCHANGED <<engineVars, metaVars, autoSync, vault, processing, debounceTimers, edits, commands>>

\* lines 95, 98, 113: vault.modify resolves; the vault fires 'modify' for the
\* write, and the handler runs before the call is resumed or after it
WriteResolves(sync, handlerFirst) ==
    /\ sync.stage = "write"
    /\ vault' = [vault EXCEPT ![sync.path] = sync.newContent]
    /\ syncs' = RemoveFrom(syncs, sync)
    /\ IF handlerFirst
       THEN LET after == Continuation(
                             HandlerTimeouts(timeouts, debounceTimers, sync.path, "sync"),
                             HandlerMap(debounceTimers, sync.path), sync, TRUE)
            IN  /\ timeouts' = after.timeouts
                /\ debounceTimers' = after.map
       ELSE LET after == Continuation(timeouts, debounceTimers, sync, TRUE)
            IN  /\ timeouts' = HandlerTimeouts(after.timeouts, after.map, sync.path, "sync")
                /\ debounceTimers' = HandlerMap(after.map, sync.path)
    /\ UNCHANGED <<engineVars, metaVars, autoSync, processing, edits, commands>>

\* lines 117-119: the timer set by the finally block fires
CooldownCallback(t) ==
    /\ t.kind = "cooldown" /\ t.remaining = 0
    /\ processing' = processing \ {t.path}
    /\ timeouts' = RemoveFrom(timeouts, t)
    /\ UNCHANGED <<engineVars, metaVars, autoSync, vault, debounceTimers, syncs, edits, commands>>

\* time passes: no timer is due, and every pending timer comes closer
Tick ==
    /\ timeouts # EmptyBag
    /\ \A t \in Pending(timeouts) : t.remaining > 0
    /\ timeouts' = Elapsed(timeouts)
    /\ UNCHANGED <<engineVars, metaVars, autoSync, vault, processing, debounceTimers, syncs, edits,
                   commands>>

NextHost ==
    \/ \E p \in Paths, d \in UserDocuments : UserEdit(p, d)
    \/ \E p \in Paths : EditorCallback(p)
    \/ \E t \in Pending(timeouts) : DebounceCallback(t)
    \/ \E t \in Pending(timeouts) : CooldownCallback(t)
    \/ \E sync \in Pending(syncs) : ReadResolves(sync)
    \/ \E sync \in Pending(syncs) : IoRejects(sync)
    \/ \E sync \in Pending(syncs), handlerFirst \in BOOLEAN : WriteResolves(sync, handlerFirst)
    \/ Tick

SpecHost == InitHost /\ [][NextHost]_vars

(***************************************************************************)
(* Properties of the host                                                  *)
(***************************************************************************)
\* the calls for path p that are between their read and the end of their write
InFlight(bag, p) == SumOver({x \in Pending(bag) : x.path = p}, bag)

MutualExclusion == \A p \in Paths : InFlight(syncs, p) <= 1

\* in a step taken while p is marked busy, no call for p starts to read
BusyStartsNothing == \A p \in processing : InFlight(syncs, p)' <= InFlight(syncs, p)

\* a command run on a path that is not marked starts a call for it, whatever
\* the marks of the other paths
FreePathStarts ==
    \A p \in Paths :
        (commands'[p] > commands[p] /\ p \notin processing)
            => InFlight(syncs, p)' = InFlight(syncs, p) + 1

\* C9: at most one call per path is between its read and the end of its
\* write; a call for a path marked busy reads and writes nothing; a call for
\* a path that is not marked is not held back by the other paths
C9_OneSyncPerPath ==
    /\ []MutualExclusion
    /\ [][BusyStartsNothing]_vars
    /\ [][FreePathStarts]_vars

\* C9 witness: both paths have a call in flight at once, one of them started
\* by the command while the other path was already busy
C9_Witness ==
    /\ \A p \in Paths : InFlight(syncs, p) = 1 /\ p \in processing
    /\ \E x \in Pending(syncs) : x.cause = "command"
    /\ \E x \in Pending(syncs) : x.cause = "user"

\* C10: (the claim as stated) no call that reads the document was started
\* by the debounce timer of a 'modify' event that a sync's own write caused
C10_NoReadAfterOwnWrite ==
    \A x \in Pending(syncs) : x.cause # "sync"

\* the pending debounce timers of path p
DebouncePending(p) == {t \in Pending(timeouts) : t.kind = "debounce" /\ t.path = p}

\* C17: (the claim as stated) a path has at most one pending debounce timer,
\* and that timer is the one the map holds for the path
C17_SinglePendingTrigger ==
    \A p \in Paths :
        /\ SumOver(DebouncePending(p), timeouts) <= 1
        /\ \A t \in DebouncePending(p) : t.mapped /\ debounceTimers[p]

\* in a step in which a sync writes file p, what it writes is what a pass
\* over the text p holds at that moment would write
WritesFromCurrent ==
    \A p \in Paths :
        (vault'[p] # vault[p] /\ edits' = edits)
            => syncResult(vault[p], lowercaseTags) = Modify(vault'[p])

\* C18: (the claim as stated) every write of a sync is computed from the
\* content the document has when it is written: a modification made
\* between the sync's read and its write is not overwritten
C18_NoStaleWrite == [][WritesFromCurrent]_vars

(***************************************************************************)
(* The host when timers fire and reads and writes complete                 *)
(***************************************************************************)
\* the event loop runs every timer that is due and time does not stop
TimersFire ==
    /\ WF_vars(Tick)
    /\ WF_vars(\E t \in Pending(timeouts) : DebounceCallback(t))
    /\ WF_vars(\E t \in Pending(timeouts) : CooldownCallback(t))

\* the vault answers every vault.read and every vault.modify: no call for a
\* path awaits it for ever
VaultAnswers == \A p \in Paths : []<>(InFlight(syncs, p) = 0)

HostFairness == TimersFire /\ VaultAnswers

\* what the user saves with auto-sync on: the same notes, and a note with an
\* inline tag whose block has the tag key twice
AutoSyncDocuments == UserDocuments \cup {Block(<<TagsKey, TagsKey>>) \o <<"#", "a">>}

\* the host with a vault whose reads and writes never fail
NextHostNoFailure ==
    \/ \E p \in Paths, d \in AutoSyncDocuments : UserEdit(p, d)
    \/ \E p \in Paths : EditorCallback(p)
    \/ \E t \in Pending(timeouts) : DebounceCallback(t)
    \/ \E t \in Pending(timeouts) : CooldownCallback(t)
    \/ \E sync \in Pending(syncs) : ReadResolves(sync)
    \/ \E sync \in Pending(syncs), handlerFirst \in BOOLEAN : WriteResolves(sync, handlerFirst)
    \/ Tick

SpecAutoSync == InitHost /\ [][NextHostNoFailure]_vars /\ HostFairness

\* the host with a vault whose reads and writes may fail
SpecHostFair == InitHost /\ [][NextHost]_vars /\ HostFairness

\* the tags recorded in the block of file p are its inline tags
InSync(p) ==
    SameIgnoringOrder(RecordedTags(vault[p]), extractInlineTags(vault[p], lowercaseTags))

\* nothing is left to happen but the clearing of busy marks
Settled ==
    /\ syncs = EmptyBag
    /\ \A p \in Paths : DebouncePending(p) = {}

\* C19: (the claim as stated) with auto-sync on, once the user has stopped
\* saving, the host settles for good with every file in sync
C19_Convergence ==
    autoSync => <>[](Settled /\ \A p \in Paths : InSync(p))

\* C20: whenever a path is marked busy, the mark is removed later, whatever
\* the way the call that set it ends: no path stays busy for ever, every
\* path is free again and again
C20_BusyMarkReleased ==
    \A p \in Paths : []<>(p \notin processing)

\* C20 witness: the one note the user saved needs a write, the sync its
\* debounce timer started has ended without writing it (its read or its
\* write failed), and the path is still marked
C20_Witness ==
    /\ autoSync
    /\ edits = 1
    /\ \A p \in Paths : commands[p] = 0
    /\ \E p \in Paths :
           /\ vault[p] = <<"#", "a">>
           /\ p \in processing
           /\ InFlight(syncs, p) = 0

====
